---- MODULE Spec2Model ----
(***************************************************************************)
(* ErasedVec<A> (src/src/lib.rs): a type-erased growable array over a raw  *)
(* byte buffer obtained from an Allocator.  The model keeps the buffer at  *)
(* byte granularity, because erase() counts its shift in bytes, and keeps  *)
(* the allocator's blocks, because grow(), clone() and drop() trade in     *)
(* them.                                                                   *)
(***************************************************************************)
EXTENDS Integers, Sequences, FiniteSets, TLC

Orig  == 1      \* the instance the caller constructs
Dup   == 2      \* its clone
Insts == {Orig, Dup}

(***************************************************************************)
(* Bounds of the exploration.                                              *)
(***************************************************************************)
MaxCap    == 2   \* no buffer is grown or requested beyond this many slots
UsizeBits == 16  \* width of usize in the model (the least Rust allows; 64 on the usual target)
WrapDepth == 0   \* how far below usize::MAX a wrapped len is followed

MaxBlocks == Cardinality(Insts) + 1  \* blocks the allocator has: one an instance, one more while grow() holds two
MaxRes    == MaxCap      \* resource-owning values the caller creates: a buffer full
MaxIter   == MaxCap + 2  \* next() calls on one iterator: past the end, twice

UsizeMod  == 2 ^ UsizeBits
USIZE_MAX == UsizeMod - 1

(***************************************************************************)
(* Element types the callers instantiate the generic methods with.         *)
(* "u16" is plain data of two bytes; "Res" is a one-byte handle to a       *)
(* resource that its destructor releases (a Box or String in miniature).   *)
(***************************************************************************)
Types == {"u16", "Res"}

size_of(T)    == IF T = "u16" THEN 2 ELSE 1
align_of(T)   == IF T = "u16" THEN 2 ELSE 1
needs_drop(T) == T = "Res"

Uninit == 0      \* a byte no one has written yet: its value is unknown
Handles == 1 .. MaxRes

\* The values of a type, as the bytes of their representation.
ValuesOf(T) == IF T = "u16" THEN {<<1, 2>>, <<3, 4>>}
               ELSE {<<r>> : r \in Handles}

\* A value of type T read from memory that holds no value: unknown bytes.
Unknown(T) == [k \in 1 .. size_of(T) |-> Uninit]

Indices == (0 .. MaxCap) \cup {USIZE_MAX}

VARIABLES
    overflow_checks,  \* the build profile: TRUE panics on integer overflow, FALSE wraps
    proc,             \* "start" until the caller has its instance, then "running",
                      \* or "aborted" once undefined behaviour killed the process
    vec,              \* the ErasedVec instances
    heap,             \* the allocator's blocks
    res,              \* the resources Res values refer to
    it,               \* the IntoIter in scope, if any
    ret,              \* what the last call did and returned
    hist              \* per instance: the values pushed since construction

vars == <<overflow_checks, proc, vec, heap, res, it, ret, hist>>

(***************************************************************************)
(* usize arithmetic.                                                       *)
(***************************************************************************)
wrapping_sub(a, b) == (a - b + UsizeMod) % UsizeMod
wrapping_mul(a, b) == (a * b) % UsizeMod

(***************************************************************************)
(* The allocator.  A block is "free" until allocate() hands it out and     *)
(* "live" until deallocate() takes it back with the layout it was          *)
(* allocated with, which frees it for reuse; "misfreed" records a          *)
(* deallocate() of a block that was not live, or with another layout.      *)
(***************************************************************************)
Blocks == 1 .. MaxBlocks
Null   == 0

FreeBlock == [st |-> "free", size |-> 0, align |-> 0, bytes |-> <<>>]

FreeIds(h) == {b \in Blocks : h[b].st = "free"}

NextBlock(h) == CHOOSE b \in FreeIds(h) : \A c \in FreeIds(h) : b <= c

allocate(h, size, align) ==
    [h EXCEPT ![NextBlock(h)] =
        [st |-> "live", size |-> size, align |-> align,
         bytes |-> [k \in 1 .. size |-> Uninit]]]

deallocate(h, ptr, size, align) ==
    IF ptr \in Blocks /\ h[ptr].st = "live" /\ h[ptr].size = size /\ h[ptr].align = align
    THEN [h EXCEPT ![ptr] = FreeBlock]
    ELSE IF ptr \in Blocks THEN [h EXCEPT ![ptr] = [FreeBlock EXCEPT !.st = "misfreed"]]
    ELSE h

\* [off, off + n) lies inside the live block ptr points to.
InBounds(h, ptr, off, n) ==
    /\ ptr \in Blocks
    /\ h[ptr].st = "live"
    /\ off >= 0
    /\ off + n <= h[ptr].size

\* dst with n bytes of src, from srcOff on, written at dstOff (offsets from 0).
\* The bytes are read from src as it was, which is what memmove does.
CopyBytes(dst, dstOff, src, srcOff, n) ==
    [k \in 1 .. Len(dst) |->
        IF k > dstOff /\ k <= dstOff + n THEN src[srcOff + (k - dstOff)] ELSE dst[k]]

(***************************************************************************)
(* The struct.                                                             *)
(***************************************************************************)
NoVec == [alive |-> FALSE, element_type |-> "-", element_size |-> 0,
          element_align |-> 0, ptr |-> Null, len |-> 0, cap |-> 0]

ErasedVec(T, ptr, len, cap) ==
    [alive |-> TRUE, element_type |-> T, element_size |-> size_of(T),
     element_align |-> align_of(T), ptr |-> ptr, len |-> len, cap |-> cap]

\* The bytes of slot i of v's buffer.
Slot(v, h, i) ==
    SubSeq(h[v.ptr].bytes, i * v.element_size + 1, (i + 1) * v.element_size)

\* The elements of the live range.
Elems(v, h) == IF v.len = 0 THEN <<>> ELSE [i \in 1 .. v.len |-> Slot(v, h, i - 1)]

\* An outcome of a call: the instance and the heap it leaves, how it ended
\* ("ok", "panic" or "crash"), and the value it returned (a sequence).
Outcome(v, h, out, val) == [v |-> v, h |-> h, out |-> out, val |-> val]

new_in(T) == ErasedVec(T, Null, 0, 0)

with_capacity_in(T, capacity, h, ok) ==
    IF ~ok THEN Outcome(NoVec, h, "panic", <<>>)
    ELSE Outcome(ErasedVec(T, NextBlock(h), 0, capacity),
                 allocate(h, capacity * size_of(T), align_of(T)), "ok", <<>>)


(***************************************************************************)
(* grow(): the zero-capacity bootstrap, then the doubling.  The bootstrap  *)
(* does not return, so the doubling follows it in the same call.           *)
(***************************************************************************)
growBootstrap(v, h, ok) ==
    IF v.cap # 0 THEN Outcome(v, h, "ok", <<>>)
    ELSE IF ~ok THEN Outcome(v, h, "panic", <<>>)
    ELSE Outcome([v EXCEPT !.ptr = NextBlock(h), !.cap = 1],
                 allocate(h, v.element_size, v.element_align), "ok", <<>>)

\* grow() as it would be without step 2, the copy into the new buffer.
growDouble_NoCopy(v, h, ok) ==
    LET old_size == v.cap * v.element_size
        new_size == 2 * v.cap * v.element_size
        mem      == NextBlock(h)
        h1       == allocate(h, new_size, v.element_align)
        h3       == deallocate(h1, v.ptr, old_size, v.element_align)
    IN  IF ~ok THEN Outcome(v, h, "panic", <<>>)
        ELSE Outcome([v EXCEPT !.ptr = mem, !.cap = 2 * v.cap], h3, "ok", <<>>)

\* grow() as it would be if it copied `len` bytes, as erase() counts them.
growDouble_CopyLenBytes(v, h, ok) ==
    LET old_size == v.cap * v.element_size
        new_size == 2 * v.cap * v.element_size
        mem      == NextBlock(h)
        h1       == allocate(h, new_size, v.element_align)
        n        == IF v.len < old_size THEN v.len ELSE old_size
        h2       == [h1 EXCEPT ![mem].bytes = CopyBytes(@, 0, h[v.ptr].bytes, 0, n)]
        h3       == deallocate(h2, v.ptr, old_size, v.element_align)
    IN  IF ~ok THEN Outcome(v, h, "panic", <<>>)
        ELSE Outcome([v EXCEPT !.ptr = mem, !.cap = 2 * v.cap], h3, "ok", <<>>)

growDouble(v, h, ok) ==
    LET old_size == v.cap * v.element_size
        new_size == 2 * v.cap * v.element_size
        mem      == NextBlock(h)
        h1       == allocate(h, new_size, v.element_align)
        h2       == [h1 EXCEPT ![mem].bytes = CopyBytes(@, 0, h[v.ptr].bytes, 0, old_size)]
        h3       == deallocate(h2, v.ptr, old_size, v.element_align)
    IN  IF ~ok THEN Outcome(v, h, "panic", <<>>)
        ELSE Outcome([v EXCEPT !.ptr = mem, !.cap = 2 * v.cap], h3, "ok", <<>>)

grow(v, h, ok1, ok2) ==
    LET b == growBootstrap(v, h, ok1)
    IN  IF b.out # "ok" THEN b ELSE growDouble(b.v, b.h, ok2)

\* The allocate() calls grow() makes on v, and the capacity it ends with.
GrowAllocs(v) == IF v.cap = 0 THEN 2 ELSE 1
GrowCap(v)    == IF v.cap = 0 THEN 2 ELSE 2 * v.cap

\* What the allocator may answer to the calls grow() makes on v: <<ok1, ok2>>
\* for the bootstrap and the doubling (ok1 is not asked for when cap > 0, ok2
\* not when the bootstrap failed).
GrowAnswers(v) ==
    IF v.cap = 0 THEN {<<FALSE, TRUE>>, <<TRUE, FALSE>>, <<TRUE, TRUE>>}
    ELSE {<<TRUE, FALSE>>, <<TRUE, TRUE>>}

\* The same for push(), which grows only when len = cap.
PushAnswers(v) == IF v.len = v.cap THEN GrowAnswers(v) ELSE {<<TRUE, TRUE>>}

(***************************************************************************)
(* push<T>(value)                                                          *)
(***************************************************************************)
\* self.len += 1
pushLen(v, h) ==
    IF v.len = USIZE_MAX
    THEN IF overflow_checks THEN Outcome(v, h, "panic", <<>>)
         ELSE Outcome([v EXCEPT !.len = 0], h, "ok", <<>>)
    ELSE Outcome([v EXCEPT !.len = v.len + 1], h, "ok", <<>>)

\* copy_nonoverlapping(&value, ptr + len * element_size, element_size), then
\* the increment.  A slot outside the buffer is undefined behaviour: the
\* process dies, or the write lands outside every block of the model.
pushWrite(v, h, value) ==
    LET off == v.len * v.element_size
    IN  IF InBounds(h, v.ptr, off, v.element_size)
        THEN {pushLen(v, [h EXCEPT ![v.ptr].bytes =
                                CopyBytes(@, off, value, 0, v.element_size)])}
        ELSE {Outcome(v, h, "crash", <<>>), pushLen(v, h)}

\* push() as it would be if it grew one element early, at len + 1 >= cap.
push_GrowsEarly(v, h, T, value, ok1, ok2) ==
    IF T # v.element_type THEN {Outcome(v, h, "panic", <<>>)}
    ELSE LET g == IF v.len + 1 >= v.cap THEN grow(v, h, ok1, ok2)
                  ELSE Outcome(v, h, "ok", <<>>)
         IN  IF g.out # "ok" THEN {g} ELSE pushWrite(g.v, g.h, value)

push(v, h, T, value, ok1, ok2) ==
    IF T # v.element_type THEN {Outcome(v, h, "panic", <<>>)}
    ELSE LET g == IF v.len = v.cap THEN grow(v, h, ok1, ok2)
                  ELSE Outcome(v, h, "ok", <<>>)
         IN  IF g.out # "ok" THEN {g} ELSE pushWrite(g.v, g.h, value)

(***************************************************************************)
(* pop()                                                                   *)
(***************************************************************************)
\* pop() as it would be without its assertion, an empty instance left as it is.
pop_NoAssert(v, h) ==
    IF v.len > 0 THEN Outcome([v EXCEPT !.len = v.len - 1], h, "ok", <<>>)
    ELSE Outcome(v, h, "ok", <<>>)

pop(v, h) ==
    IF v.len > 0 THEN Outcome([v EXCEPT !.len = v.len - 1], h, "ok", <<>>)
    ELSE Outcome(v, h, "panic", <<>>)

(***************************************************************************)
(* get<T>(index): Some(&T) is <<bytes>>, None is <<>>.  get() computes an  *)
(* address and reads nothing: for a slot outside the buffer it returns a   *)
(* reference through which a caller sees unknown bytes.                    *)
(***************************************************************************)
\* get() as it would be with `index > self.len` for its bound check.
get_OffByOne(v, h, T, index) ==
    IF T # v.element_type THEN {Outcome(v, h, "panic", <<>>)}
    ELSE IF index > v.len THEN {Outcome(v, h, "ok", <<>>)}
    ELSE IF InBounds(h, v.ptr, index * v.element_size, v.element_size)
    THEN {Outcome(v, h, "ok", <<Slot(v, h, index)>>)}
    ELSE {Outcome(v, h, "ok", <<Unknown(T)>>)}

get(v, h, T, index) ==
    IF T # v.element_type THEN {Outcome(v, h, "panic", <<>>)}
    ELSE IF index >= v.len THEN {Outcome(v, h, "ok", <<>>)}
    ELSE IF InBounds(h, v.ptr, index * v.element_size, v.element_size)
    THEN {Outcome(v, h, "ok", <<Slot(v, h, index)>>)}
    ELSE {Outcome(v, h, "ok", <<Unknown(T)>>)}

(***************************************************************************)
(* erase(index).  ptr is *mut u8, so the count given to ptr::copy is a     *)
(* number of bytes.  len - 1 underflows on an empty instance: a panic      *)
(* under overflow checks, a wrap to usize::MAX without them.               *)
(***************************************************************************)
erase(v, h, index) ==
    LET last  == wrapping_sub(v.len, 1)
        count == wrapping_sub(last, index)
        src   == (index + 1) * v.element_size
        dst   == index * v.element_size
        done(h2) == Outcome([v EXCEPT !.len = last], h2, "ok", <<>>)
    IN  IF v.len = 0 /\ overflow_checks THEN {Outcome(v, h, "panic", <<>>)}
        ELSE IF index < last
        THEN IF InBounds(h, v.ptr, src, count)
             THEN {done([h EXCEPT ![v.ptr].bytes = CopyBytes(@, dst, @, src, count)])}
             ELSE {Outcome(v, h, "crash", <<>>), done(h)}
        ELSE {done(h)}

(***************************************************************************)
(* remove<T>(index): no check of T; ptr::read of size_of::<T>() bytes at   *)
(* the slot, then erase(index).                                            *)
(***************************************************************************)
\* remove() as it would be if it read the slot after erase() had shifted it.
remove_ReadAfterErase(v, h, T, index) ==
    IF ~(index < v.len) THEN {Outcome(v, h, "panic", <<>>)}
    ELSE {Outcome(o.v, o.h, o.out,
                  IF o.out # "ok" THEN <<>>
                  ELSE IF InBounds(o.h, o.v.ptr, index * v.element_size, size_of(T))
                  THEN <<SubSeq(o.h[o.v.ptr].bytes, index * v.element_size + 1,
                                index * v.element_size + size_of(T))>>
                  ELSE <<Unknown(T)>>) : o \in erase(v, h, index)}

remove(v, h, T, index) ==
    LET off   == index * v.element_size
        inb   == InBounds(h, v.ptr, off, size_of(T))
        reads == IF inb THEN {SubSeq(h[v.ptr].bytes, off + 1, off + size_of(T))}
                 ELSE {Unknown(T)}
    IN  IF ~(index < v.len) THEN {Outcome(v, h, "panic", <<>>)}
        ELSE {Outcome(o.v, o.h, o.out, IF o.out = "ok" THEN <<val>> ELSE <<>>) :
                  o \in erase(v, h, index), val \in reads}
             \cup (IF inb THEN {} ELSE {Outcome(v, h, "crash", <<>>)})

(***************************************************************************)
(* into_vec<T>(): a Vec<T> is its buffer and its length; the elements a    *)
(* caller sees are the first `len` ones.                                   *)
(***************************************************************************)
VecWithCapacity(n, T) == [buf |-> [k \in 1 .. n * size_of(T) |-> Uninit], len |-> 0]

VecElems(w, T) ==
    [i \in 1 .. w.len |-> SubSeq(w.buf, (i - 1) * size_of(T) + 1, i * size_of(T))]

\* into_vec() as it would be without its assert_eq! on the type.
into_vec_Unchecked(v, h, T) ==
    LET w == VecWithCapacity(v.len, T)
        n == wrapping_mul(v.len, v.element_size)
        filled == [w EXCEPT !.buf = CopyBytes(@, 0, h[v.ptr].bytes, 0, n)]
    IN  IF v.len * size_of(T) > USIZE_MAX \div 2
        THEN {Outcome(v, h, "panic", <<>>)}
        ELSE IF v.len > 0
        THEN IF InBounds(h, v.ptr, 0, n)
             THEN {Outcome(v, h, "ok", VecElems(filled, T))}
             ELSE {Outcome(v, h, "crash", <<>>), Outcome(v, h, "ok", VecElems(w, T))}
        ELSE {Outcome(v, h, "ok", VecElems(w, T))}

into_vec(v, h, T) ==
    LET w == VecWithCapacity(v.len, T)
        n == wrapping_mul(v.len, v.element_size)
        filled == [w EXCEPT !.buf = CopyBytes(@, 0, h[v.ptr].bytes, 0, n)]
    IN  IF T # v.element_type THEN {Outcome(v, h, "panic", <<>>)}
        ELSE IF v.len * size_of(T) > USIZE_MAX \div 2
        THEN {Outcome(v, h, "panic", <<>>)}          \* Vec: capacity overflow
        ELSE IF v.len > 0
        THEN IF InBounds(h, v.ptr, 0, n)
             THEN {Outcome(v, h, "ok", VecElems(filled, T))}
             ELSE {Outcome(v, h, "crash", <<>>), Outcome(v, h, "ok", VecElems(w, T))}
        ELSE {Outcome(v, h, "ok", VecElems(w, T))}

(***************************************************************************)
(* Clone and Drop.  The outcome of clone() carries the new instance.       *)
(***************************************************************************)
\* clone() as it would be if it copied the struct and kept the pointer.
clone_Shallow(v, h, ok) ==
    IF ~ok THEN {Outcome(NoVec, h, "panic", <<>>)} ELSE {Outcome(v, h, "ok", <<>>)}

clone(v, h, ok) ==
    LET mem == NextBlock(h)
        h1  == allocate(h, v.cap * v.element_size, v.element_align)
        n   == wrapping_mul(v.len, v.element_size)
        new == [v EXCEPT !.ptr = mem]
    IN  IF ~ok THEN {Outcome(NoVec, h, "panic", <<>>)}
        ELSE IF n = 0 THEN {Outcome(new, h1, "ok", <<>>)}
        ELSE IF InBounds(h, v.ptr, 0, n) /\ n <= v.cap * v.element_size
        THEN {Outcome(new, [h1 EXCEPT ![mem].bytes =
                                CopyBytes(@, 0, h[v.ptr].bytes, 0, n)], "ok", <<>>)}
        ELSE {Outcome(NoVec, h1, "crash", <<>>), Outcome(new, h1, "ok", <<>>)}

drop(v, h) ==
    IF v.cap > 0 THEN deallocate(h, v.ptr, v.cap * v.element_size, v.element_align)
    ELSE h


(***************************************************************************)
(* Resources of the values of type "Res".                                  *)
(***************************************************************************)
FreshHandles == {r \in Handles : res[r] = "unused"}
NextHandle   == CHOOSE r \in FreshHandles : \A q \in FreshHandles : r <= q

\* The destructor of a value of type T runs.
drop_in_place(rs, T, value) ==
    IF needs_drop(T) /\ value[1] \in Handles
    THEN [rs EXCEPT ![value[1]] = IF @ = "owned" THEN "released" ELSE "double"]
    ELSE rs

\* `value` is a parameter of push() that nothing forgets: its destructor runs
\* when push() returns or unwinds.
pushScopeEnd(rs, T, value) == drop_in_place(rs, T, value)

(***************************************************************************)
(* The iterator, the record of the last call, the history of pushes.       *)
(***************************************************************************)
NoIter == [live |-> FALSE, vec |-> 0, T |-> "-", i |-> 0, out |-> <<>>]

Ret(op, out, val) == [op |-> op, out |-> out, val |-> val]

\* pure: the instance was constructed empty and only push() and grow() have
\* changed it since; cap0: the capacity it was constructed with.
NoHist == [pure |-> FALSE, cap0 |-> 0, pushed |-> <<>>]

Running == proc = "running"

\* The caller makes a call other than next(): the iterator, if there was one,
\* has been run or dropped by then (as in iter().map(..).collect()).
Call == Running /\ ~it.live

\* The lengths the exploration follows: those of a buffer, and the ones just
\* below usize::MAX that a wrapped subtraction leaves.
Followed(len) == len <= MaxCap \/ len >= USIZE_MAX - WrapDepth

Commit(id, o) ==
    /\ Followed(o.v.len)
    /\ vec'  = [vec EXCEPT ![id] = o.v]
    /\ heap' = o.h
    /\ proc' = IF o.out = "crash" THEN "aborted" ELSE "running"

Init ==
    /\ overflow_checks \in BOOLEAN
    /\ proc = "start"
    /\ vec  = [id \in Insts |-> NoVec]
    /\ heap = [b \in Blocks |-> FreeBlock]
    /\ res  = [r \in Handles |-> "unused"]
    /\ it   = NoIter
    /\ ret  = Ret("-", "ok", <<>>)
    /\ hist = [id \in Insts |-> NoHist]

\* The caller constructs its instance once, on an allocator nothing has used.
New(id, T) ==
    /\ proc = "start"
    /\ proc' = "running"
    /\ vec'  = [vec EXCEPT ![id] = new_in(T)]
    /\ hist' = [hist EXCEPT ![id] = [pure |-> TRUE, cap0 |-> 0, pushed |-> <<>>]]
    /\ ret'  = Ret("new", "ok", <<>>)
    /\ UNCHANGED <<overflow_checks, heap, res, it>>

WithCapacity(id, T, capacity, ok) ==
    /\ proc = "start"
    /\ LET o == with_capacity_in(T, capacity, heap, ok)
       IN  /\ proc' = IF o.out = "ok" THEN "running" ELSE "start"
           /\ vec'  = [vec EXCEPT ![id] = o.v]
           /\ heap' = o.h
           /\ hist' = [hist EXCEPT ![id] =
                         IF o.out = "ok"
                         THEN [pure |-> TRUE, cap0 |-> capacity, pushed |-> <<>>]
                         ELSE NoHist]
           /\ ret'  = Ret("with_capacity", o.out, <<>>)
    /\ UNCHANGED <<overflow_checks, res, it>>

Grow(id, ok1, ok2) ==
    /\ Call /\ vec[id].alive
    /\ GrowCap(vec[id]) <= MaxCap
    /\ Cardinality(FreeIds(heap)) >= GrowAllocs(vec[id])
    /\ LET o == grow(vec[id], heap, ok1, ok2)
       IN  /\ Commit(id, o)
           /\ ret' = Ret("grow", o.out, <<>>)
    /\ UNCHANGED <<overflow_checks, res, it, hist>>

Push(id, T, value, ok1, ok2) ==
    /\ Call /\ vec[id].alive
    /\ vec[id].len = vec[id].cap =>
          /\ GrowCap(vec[id]) <= MaxCap
          /\ Cardinality(FreeIds(heap)) >= GrowAllocs(vec[id])
    /\ needs_drop(T) => FreshHandles # {} /\ value = <<NextHandle>>
    /\ \E o \in push(vec[id], heap, T, value, ok1, ok2) :
          /\ Commit(id, o)
          /\ ret'  = Ret("push", o.out, <<>>)
          /\ hist' = [hist EXCEPT ![id] =
                        IF o.out = "ok" /\ @.pure
                        THEN [@ EXCEPT !.pushed = Append(@, value)] ELSE @]
    /\ res' = pushScopeEnd(IF needs_drop(T) THEN [res EXCEPT ![value[1]] = "owned"]
                           ELSE res, T, value)
    /\ UNCHANGED <<overflow_checks, it>>

Pop(id) ==
    /\ Call /\ vec[id].alive
    /\ LET o == pop(vec[id], heap)
       IN  /\ Commit(id, o)
           /\ ret'  = Ret("pop", o.out, <<>>)
           /\ hist' = [hist EXCEPT ![id] = IF o.out = "ok" THEN NoHist ELSE @]
    /\ UNCHANGED <<overflow_checks, res, it>>

Get(id, T, index) ==
    /\ Call /\ vec[id].alive
    /\ \E o \in get(vec[id], heap, T, index) :
          /\ ret' = Ret("get", o.out, o.val)
          /\ Commit(id, o)
    /\ UNCHANGED <<overflow_checks, res, it, hist>>

Erase(id, index) ==
    /\ Call /\ vec[id].alive
    /\ \E o \in erase(vec[id], heap, index) :
          /\ Commit(id, o)
          /\ ret'  = Ret("erase", o.out, <<>>)
          /\ hist' = [hist EXCEPT ![id] = IF o.out = "ok" THEN NoHist ELSE @]
    /\ UNCHANGED <<overflow_checks, res, it>>

Remove(id, T, index) ==
    /\ Call /\ vec[id].alive
    /\ \E o \in remove(vec[id], heap, T, index) :
          /\ ret'  = Ret("remove", o.out, o.val)
          /\ Commit(id, o)
          /\ hist' = [hist EXCEPT ![id] = IF o.out = "ok" THEN NoHist ELSE @]
    /\ UNCHANGED <<overflow_checks, res, it>>

IntoVec(id, T) ==
    /\ Call /\ vec[id].alive
    /\ \E o \in into_vec(vec[id], heap, T) :
          /\ Commit(id, o)
          /\ ret' = Ret("into_vec", o.out, o.val)
    /\ UNCHANGED <<overflow_checks, res, it, hist>>

Clone(id, to, ok) ==
    /\ Call /\ vec[id].alive /\ ~vec[to].alive
    /\ FreeIds(heap) # {}
    /\ \E o \in clone(vec[id], heap, ok) :
          /\ Commit(to, o)
          /\ ret' = Ret("clone", o.out, <<>>)
    /\ hist' = [hist EXCEPT ![to] = NoHist]
    /\ UNCHANGED <<overflow_checks, res, it>>

\* v = v.clone(): the clone takes the place of its source, which is dropped.
CloneAssign(id, ok) ==
    /\ Call /\ vec[id].alive
    /\ FreeIds(heap) # {}
    /\ \E o \in clone(vec[id], heap, ok) :
          /\ Followed(o.v.len)
          /\ vec'  = [vec EXCEPT ![id] = IF o.out = "ok" THEN o.v ELSE @]
          /\ heap' = IF o.out = "ok" THEN drop(vec[id], o.h) ELSE o.h
          /\ proc' = IF o.out = "crash" THEN "aborted" ELSE "running"
          /\ ret'  = Ret("clone", o.out, <<>>)
          /\ hist' = [hist EXCEPT ![id] = IF o.out = "ok" THEN NoHist ELSE @]
    /\ UNCHANGED <<overflow_checks, res, it>>

Drop(id) ==
    /\ Call /\ vec[id].alive
    /\ vec'  = [vec EXCEPT ![id] = NoVec]
    /\ heap' = drop(vec[id], heap)
    /\ hist' = [hist EXCEPT ![id] = NoHist]
    /\ ret'  = Ret("drop", "ok", <<>>)
    /\ UNCHANGED <<overflow_checks, proc, res, it>>

(***************************************************************************)
(* iter<T>() and IntoIter::next()                                          *)
(***************************************************************************)
\* iter() as it would be if it started at index 1.
iter_FromOne(id, T) == [live |-> TRUE, vec |-> id, T |-> T, i |-> 1, out |-> <<>>]

iter(id, T) == [live |-> TRUE, vec |-> id, T |-> T, i |-> 0, out |-> <<>>]

Iter(id, T) ==
    /\ Call /\ vec[id].alive
    /\ it'  = iter(id, T)
    /\ ret' = Ret("iter", "ok", <<>>)
    /\ UNCHANGED <<overflow_checks, proc, vec, heap, res, hist>>

\* get() first; a panic of get() leaves i alone.
next(w, o) ==
    IF o.out = "ok" THEN [w EXCEPT !.i = w.i + 1, !.out = Append(@, o.val)] ELSE w

IterNext ==
    /\ Running /\ it.live /\ it.i < MaxIter
    /\ \E o \in get(vec[it.vec], heap, it.T, it.i) :
          /\ Commit(it.vec, o)
          /\ it'  = next(it, o)
          /\ ret' = Ret("next", o.out, o.val)
    /\ UNCHANGED <<overflow_checks, res, hist>>

IterEnd ==
    /\ Running /\ it.live
    /\ it'  = NoIter
    /\ ret' = Ret("iter_end", "ok", <<>>)
    /\ UNCHANGED <<overflow_checks, proc, vec, heap, res, hist>>

(***************************************************************************)
(* The calls that construct, change and drop an instance, and get().       *)
(***************************************************************************)
Next ==
    \/ \E T \in Types : New(Orig, T)
    \/ \E T \in Types, n \in 0 .. MaxCap, ok \in BOOLEAN : WithCapacity(Orig, T, n, ok)
    \/ \E id \in Insts : \E a \in GrowAnswers(vec[id]) : Grow(id, a[1], a[2])
    \/ \E id \in Insts, T \in Types : \E a \in PushAnswers(vec[id]) :
          \E value \in ValuesOf(T) : Push(id, T, value, a[1], a[2])
    \/ \E id \in Insts : Pop(id)
    \/ \E id \in Insts, T \in Types, index \in Indices : Get(id, T, index)
    \/ \E id \in Insts, index \in Indices : Erase(id, index)
    \/ \E id \in Insts, T \in Types, index \in Indices : Remove(id, T, index)
    \/ \E id \in Insts, ok \in BOOLEAN : CloneAssign(id, ok)
    \/ \E id \in Insts : Drop(id)

Spec == Init /\ [][Next]_vars

(***************************************************************************)
(* into_vec() and iteration, on instances built and changed by push, pop   *)
(* and erase.                                                              *)
(***************************************************************************)
NextRead ==
    \/ \E T \in Types : New(Orig, T)
    \/ \E T \in Types, n \in 0 .. MaxCap, ok \in BOOLEAN : WithCapacity(Orig, T, n, ok)
    \/ \E id \in Insts, T \in Types : \E a \in PushAnswers(vec[id]) :
          \E value \in ValuesOf(T) : Push(id, T, value, a[1], a[2])
    \/ \E id \in Insts : Pop(id)
    \/ \E id \in Insts, index \in Indices : Erase(id, index)
    \/ \E id \in Insts, T \in Types : IntoVec(id, T)
    \/ \E id \in Insts, T \in Types : Iter(id, T)
    \/ IterNext
    \/ IterEnd

SpecRead == Init /\ [][NextRead]_vars

(***************************************************************************)
(* Every call of the interface on one instance.                            *)
(***************************************************************************)
NextAll == Next \/ NextRead

SpecAll == Init /\ [][NextAll]_vars

(***************************************************************************)
(* An instance and its clone, side by side: the calls that change an       *)
(* instance, on either of the two, for plain-data elements of two bytes,   *)
(* in a build with overflow checks.                                        *)
(***************************************************************************)
InitClone == Init /\ overflow_checks = TRUE

NextClone ==
    \/ New(Orig, "u16")
    \/ \E n \in 0 .. MaxCap, ok \in BOOLEAN : WithCapacity(Orig, "u16", n, ok)
    \/ \E ok \in BOOLEAN : Clone(Orig, Dup, ok)
    \/ \E id \in Insts : \E a \in GrowAnswers(vec[id]) : Grow(id, a[1], a[2])
    \/ \E id \in Insts : \E a \in PushAnswers(vec[id]) :
          \E value \in ValuesOf("u16") : Push(id, "u16", value, a[1], a[2])
    \/ \E id \in Insts : Pop(id)
    \/ \E id \in Insts, index \in Indices : Erase(id, index)
    \/ \E id \in Insts, index \in Indices : Remove(id, "u16", index)
    \/ \E id \in Insts : Drop(id)

SpecClone == InitClone /\ [][NextClone]_vars


(***************************************************************************)
(* What the claims speak of.                                               *)
(***************************************************************************)
\* What get::<T>(index) returns on v when T is v's element type.
GetVal(v, h, index) == (CHOOSE o \in get(v, h, v.element_type, index) : TRUE).val

\* s without its element at index (from 0).
RemoveAt(s, index) ==
    [k \in 1 .. Len(s) - 1 |-> IF k <= index THEN s[k] ELSE s[k + 1]]

\* The invariants the data model states: the live range lies in the buffer.
WellFormed(v, h) ==
    /\ v.alive
    /\ v.len <= v.cap
    /\ v.cap > 0 => InBounds(h, v.ptr, 0, v.cap * v.element_size)

\* C1: an instance constructed empty by new() or with_capacity(n) and changed
\* by push() alone since (growth included) has as many elements as pushes
\* returned, and get(i) returns the i-th pushed value.
C1_PushesAreKept ==
    \A id \in Insts :
        vec[id].alive /\ hist[id].pure =>
            /\ vec[id].len = Len(hist[id].pushed)
            /\ \A i \in 0 .. vec[id].len - 1 :
                  get(vec[id], heap, vec[id].element_type, i)
                      = {Outcome(vec[id], heap, "ok", <<hist[id].pushed[i + 1]>>)}

\* Two different values pushed into an instance constructed with capacity 1:
\* the second push grew a buffer that held the first.
C1_Witness ==
    /\ vec[Orig].alive /\ hist[Orig].pure /\ hist[Orig].cap0 = 1
    /\ ret.op = "push" /\ ret.out = "ok"
    /\ vec[Orig].len = 2 /\ vec[Orig].cap = 2
    /\ hist[Orig].pushed[1] # hist[Orig].pushed[2]

\* C2: erase(index) and remove(index) with index < len leave len - 1
\* elements: those before index where they were, those after it one slot
\* down, all with the values they had.
C2_EraseShiftsElements ==
    [][\A id \in Insts, index \in Indices :
          /\ ret'.op \in {"erase", "remove"}
          /\ WellFormed(vec[id], heap) /\ index < vec[id].len
          /\ Erase(id, index) \/ Remove(id, vec[id].element_type, index)
          => /\ vec'[id].len = vec[id].len - 1
             /\ Elems(vec'[id], heap') = RemoveAt(Elems(vec[id], heap), index)]_vars

\* C3: remove(index) with index < len returns the value get(index) returned
\* just before and leaves len - 1 elements; with index >= len it panics and
\* leaves the instance and its buffer as they were.
C3_RemoveReturnsElement ==
    [][ret'.op = "remove" => \A id \in Insts, index \in Indices :
          vec[id].alive /\ Remove(id, vec[id].element_type, index) =>
              IF index < vec[id].len
              THEN /\ WellFormed(vec[id], heap) => ret'.out = "ok"
                   /\ ret'.out = "ok" =>
                         /\ ret'.val = GetVal(vec[id], heap, index)
                         /\ vec'[id].len = wrapping_sub(vec[id].len, 1)
              ELSE /\ ret'.out = "panic"
                   /\ vec' = vec /\ heap' = heap]_vars

\* remove() took the first of two elements and returned it.
C3_Witness ==
    /\ ret.op = "remove" /\ ret.out = "ok"
    /\ ret.val = <<<<3, 4>>>>
    /\ vec[Orig].alive /\ vec[Orig].len = 1


\* C4: into_vec() with the element type returns the elements of the live
\* range, in order, and leaves the instance and its buffer as they were.
C4_IntoVecCopiesLiveRange ==
    [][\A id \in Insts :
          ret'.op = "into_vec" /\ WellFormed(vec[id], heap)
          /\ IntoVec(id, vec[id].element_type) =>
              /\ ret'.out = "ok"
              /\ ret'.val = Elems(vec[id], heap)
              /\ vec' = vec /\ heap' = heap]_vars

\* C5: the resource of every live element of a resource-owning type is still
\* owned: push() moved the value in, and no destructor has run on it.
C5_LiveElementsOwnTheirResource ==
    \A id \in Insts :
        WellFormed(vec[id], heap) /\ needs_drop(vec[id].element_type) =>
            \A i \in 0 .. vec[id].len - 1 :
                Slot(vec[id], heap, i)[1] \in Handles =>
                    res[Slot(vec[id], heap, i)[1]] = "owned"

\* C6: erase(index) with index >= len panics and changes nothing.
C6_EraseOutOfRangeAborts ==
    [][\A id \in Insts, index \in Indices :
          ret'.op = "erase" /\ vec[id].alive /\ index >= vec[id].len /\ Erase(id, index) =>
              /\ ret'.out = "panic"
              /\ vec' = vec /\ heap' = heap]_vars

\* C7: pop() on len > 0 leaves len - 1 and nothing else changed (cap, the
\* buffer and so the elements before the last); pop() on len = 0 panics,
\* which the caller can tell from a return, and len stays 0.
C7_PopDecrementsOrPanics ==
    [][ret'.op = "pop" => \A id \in Insts :
          vec[id].alive /\ Pop(id) =>
              IF vec[id].len > 0
              THEN /\ ret'.out = "ok"
                   /\ vec'[id] = [vec[id] EXCEPT !.len = vec[id].len - 1]
                   /\ heap' = heap
              ELSE /\ ret'.out = "panic"
                   /\ vec'[id].len = 0
                   /\ vec' = vec /\ heap' = heap]_vars

\* pop() has panicked on an empty instance.
C7_Witness ==
    /\ ret.op = "pop" /\ ret.out = "panic"
    /\ vec[Orig].alive /\ vec[Orig].len = 0 /\ vec[Orig].cap > 0

\* C8: get(index) with the element type returns None for index >= len and
\* Some for index < len (the element of that slot, when the live range lies
\* in the buffer), and changes neither the instance nor the allocator's blocks.
C8_GetAbsentBeyondLen ==
    [][ret'.op = "get" => \A id \in Insts, index \in Indices :
          vec[id].alive /\ Get(id, vec[id].element_type, index) =>
              /\ ret'.out = "ok"
              /\ index >= vec[id].len => ret'.val = <<>>
              /\ index < vec[id].len => Len(ret'.val) = 1
              /\ index < vec[id].len /\ WellFormed(vec[id], heap) =>
                    ret'.val = <<Slot(vec[id], heap, index)>>
              /\ vec' = vec /\ heap' = heap]_vars

\* get() has returned None on an instance that holds elements.
C8_Witness ==
    /\ ret.op = "get" /\ ret.out = "ok" /\ ret.val = <<>>
    /\ vec[Orig].alive /\ vec[Orig].len > 0

\* C10: an iterator has yielded, call by call from index 0, what get()
\* returns for 0, 1, 2, ...: the elements in order, then None at len and at
\* every call after it.
C10_IteratorYieldsInOrder ==
    it.live =>
        /\ vec[it.vec].alive
        /\ it.T = vec[it.vec].element_type => Len(it.out) = it.i
        /\ \A k \in 1 .. Len(it.out) :
              /\ it.out[k] = GetVal(vec[it.vec], heap, k - 1)
              /\ k > vec[it.vec].len => it.out[k] = <<>>
              /\ k <= vec[it.vec].len => Len(it.out[k]) = 1

\* Two elements yielded in order, then None twice.
C10_Witness ==
    /\ it.live /\ it.i = 4
    /\ vec[it.vec].len = 2
    /\ it.out = <<<<<<1, 2>>>>, <<<<3, 4>>>>, <<>>, <<>>>>


\* A call that changes instance id, with any arguments (such a call assigns
\* to the fields of no other instance).
Mutates(id) ==
    /\ \A other \in Insts \ {id} : vec'[other] = vec[other]
    /\ \/ ret'.op = "grow" /\ \E a \in GrowAnswers(vec[id]) : Grow(id, a[1], a[2])
       \/ ret'.op = "push" /\ \E T \in Types : \E a \in PushAnswers(vec[id]) :
             \E value \in ValuesOf(T) : Push(id, T, value, a[1], a[2])
       \/ ret'.op = "pop" /\ Pop(id)
       \/ ret'.op = "erase" /\ \E index \in Indices : Erase(id, index)
       \/ ret'.op = "remove" /\ \E T \in Types, index \in Indices : Remove(id, T, index)

\* Instance id, its block and its elements are as they were.
Untouched(id) ==
    /\ vec'[id] = vec[id]
    /\ vec[id].ptr \in Blocks => heap'[vec[id].ptr] = heap[vec[id].ptr]
    /\ vec[id].alive => Elems(vec'[id], heap') = Elems(vec[id], heap)

Prefix(s, n) == SubSeq(s, 1, n)

\* C11: a call that grows (grow() itself, or a push() at len = cap), on an
\* instance whose live range lies in its buffer, leaves the elements that
\* were live where they were, with their values; grow() leaves len as it
\* was, and the push() adds its one element after them or, when the
\* allocator fails, none.
C11_GrowthKeepsElements ==
    [][ret'.op \in {"grow", "push"} => \A id \in Insts :
          WellFormed(vec[id], heap) =>
              /\ \A a \in GrowAnswers(vec[id]) : Grow(id, a[1], a[2]) =>
                    /\ vec'[id].len = vec[id].len
                    /\ Elems(vec'[id], heap') = Elems(vec[id], heap)
              /\ vec[id].len = vec[id].cap =>
                    \A a \in GrowAnswers(vec[id]), value \in ValuesOf(vec[id].element_type) :
                        Push(id, vec[id].element_type, value, a[1], a[2]) =>
                            /\ vec'[id].len = vec[id].len + (IF ret'.out = "ok" THEN 1 ELSE 0)
                            /\ Prefix(Elems(vec'[id], heap'), vec[id].len)
                                  = Elems(vec[id], heap)]_vars

\* grow() has doubled a buffer of one slot that held an element.
C11_Witness ==
    /\ ret.op = "grow" /\ ret.out = "ok"
    /\ vec[Orig].alive /\ vec[Orig].len = 1 /\ vec[Orig].cap = 2
    /\ Elems(vec[Orig], heap) = <<<<3, 4>>>>

\* C12: len <= cap in every instance, whatever calls were made on it.
C12_LenWithinCap ==
    \A id \in Insts : vec[id].alive => vec[id].len <= vec[id].cap

\* The element metadata of v, fixed by its constructor.
Metadata(v) == <<v.element_type, v.element_size, v.element_align>>

\* C13: push(), get(), into_vec() and an iterator's next() with a type other
\* than the element type panic and leave every instance and the allocator's
\* blocks as they were; and no call changes the element type, size or
\* alignment of an instance.
C13_TypeMismatchAborts ==
    [][\A id \in Insts : vec[id].alive =>
          /\ vec'[id].alive => Metadata(vec'[id]) = Metadata(vec[id])
          /\ ret'.op \in {"push", "get", "into_vec", "next"} =>
                \A T \in Types \ {vec[id].element_type} :
                    \/ \E a \in PushAnswers(vec[id]), value \in ValuesOf(T) :
                          Push(id, T, value, a[1], a[2])
                    \/ \E index \in Indices : Get(id, T, index)
                    \/ IntoVec(id, T)
                    \/ it.live /\ it.vec = id /\ it.T = T /\ IterNext
                    => /\ ret'.out = "panic"
                       /\ vec' = vec /\ heap' = heap]_vars

\* get() with another type has panicked on an instance that holds an element.
C13_Witness ==
    /\ ret.op = "get" /\ ret.out = "panic"
    /\ vec[Orig].alive /\ vec[Orig].len = 1

\* C14: an instance holds no buffer (its pointer is null) exactly when its
\* capacity is 0.
C14_NullBufferIffZeroCap ==
    \A id \in Insts : vec[id].alive => (vec[id].ptr = Null <=> vec[id].cap = 0)

\* C15: a growth that returns (grow() itself, or the one a push() at
\* len = cap makes) ends with capacity 1 when the capacity was 0, and with
\* twice the capacity otherwise.
C15_GrowBootstrapsToOne ==
    [][ret'.op \in {"grow", "push"} /\ ret'.out = "ok" => \A id \in Insts :
          vec[id].alive =>
              \A a \in GrowAnswers(vec[id]) :
                  \/ Grow(id, a[1], a[2])
                  \/ /\ vec[id].len = vec[id].cap
                     /\ \E value \in ValuesOf(vec[id].element_type) :
                           Push(id, vec[id].element_type, value, a[1], a[2])
                  => vec'[id].cap = IF vec[id].cap = 0 THEN 1 ELSE 2 * vec[id].cap]_vars

\* C16: no deallocate() is given a block that is not live or a layout other
\* than the block's; the buffer of an instance with capacity is a live
\* block; and once the instances are dropped the allocator has every block
\* back.
C16_BuffersFreedExactlyOnce ==
    /\ \A b \in Blocks : heap[b].st # "misfreed"
    /\ \A id \in Insts :
          vec[id].alive /\ vec[id].cap > 0 =>
              vec[id].ptr \in Blocks /\ heap[vec[id].ptr].st = "live"
    /\ Running /\ (\A id \in Insts : ~vec[id].alive) =>
          \A b \in Blocks : heap[b].st = "free"

\* v's capacity is that of the block its pointer names.
Held(v, h) ==
    IF v.ptr \in Blocks
    THEN h[v.ptr].st = "live" /\ h[v.ptr].size = v.cap * v.element_size
    ELSE v.cap = 0

\* The live blocks no instance points to.
Unheld(vs, h) ==
    {b \in Blocks : h[b].st = "live" /\ \A id \in Insts : ~(vs[id].alive /\ vs[id].ptr = b)}

\* A call on id in which the allocator refused a request.
AllocationFails(id) ==
    \/ \E a \in GrowAnswers(vec[id]) \ {<<TRUE, TRUE>>} :
          \/ Grow(id, a[1], a[2])
          \/ /\ vec[id].len = vec[id].cap
             /\ \E value \in ValuesOf(vec[id].element_type) :
                   Push(id, vec[id].element_type, value, a[1], a[2])
    \/ CloneAssign(id, FALSE)

\* C17: when the allocator refuses a request, with_capacity() and clone()
\* panic with no instance made and no block taken; grow() and push() panic
\* and leave len and the elements as they were, a capacity that is the
\* size of the block held, no block out of reach that was not so before,
\* and an instance whose drop gives the block it holds back.
C17_AllocFailureLeavesConsistent ==
    [][ret'.op \in {"with_capacity", "grow", "push", "clone"} =>
          /\ \A T \in Types, n \in 0 .. MaxCap : WithCapacity(Orig, T, n, FALSE) =>
                ret'.out = "panic" /\ ~vec'[Orig].alive /\ heap' = heap
          /\ \A id \in Insts :
                WellFormed(vec[id], heap) /\ AllocationFails(id) =>
                    /\ ret'.out = "panic"
                    /\ vec'[id].len = vec[id].len
                    /\ Elems(vec'[id], heap') = Elems(vec[id], heap)
                    /\ Held(vec'[id], heap')
                    /\ Unheld(vec', heap') \subseteq Unheld(vec, heap)
                    /\ vec'[id].ptr \in Blocks =>
                          drop(vec'[id], heap')[vec'[id].ptr].st = "free"]_vars

\* The allocator's view of block b: whether it is handed out, and its layout.
Allocation(h, b) == <<h[b].st, h[b].size, h[b].align>>

\* C18: push() of a value of the element type grows exactly when len = cap.
\* With len < cap (and the buffer the capacity says) it returns, and no
\* block is allocated or deallocated, cap and the buffer pointer stay, the
\* elements before len stay (their bytes, and the resources they refer to),
\* slot len holds the value and len is one more.
\* With len = cap a push that returns has a larger capacity in a new block.
\* With len > cap (a wrapped len) there is no growth either.
C18_PushGrowsOnlyWhenFull ==
    [][ret'.op = "push" => \A id \in Insts : vec[id].alive =>
          \A a \in PushAnswers(vec[id]), value \in ValuesOf(vec[id].element_type) :
              Push(id, vec[id].element_type, value, a[1], a[2]) =>
                  /\ vec[id].len < vec[id].cap /\ WellFormed(vec[id], heap) =>
                        /\ ret'.out = "ok"
                        /\ \A b \in Blocks : Allocation(heap', b) = Allocation(heap, b)
                        /\ \A b \in Blocks \ {vec[id].ptr} : heap'[b] = heap[b]
                        /\ vec'[id] = [vec[id] EXCEPT !.len = vec[id].len + 1]
                        /\ Prefix(Elems(vec'[id], heap'), vec[id].len) = Elems(vec[id], heap)
                        /\ \A i \in 0 .. vec[id].len - 1 :
                              LET e == Slot(vec[id], heap, i)
                              IN  needs_drop(vec[id].element_type) /\ e[1] \in Handles =>
                                      res'[e[1]] = res[e[1]]
                        /\ Slot(vec'[id], heap', vec[id].len) = value
                  /\ vec[id].len = vec[id].cap /\ ret'.out = "ok" =>
                        /\ vec'[id].cap > vec[id].cap
                        /\ vec'[id].ptr # vec[id].ptr
                        /\ heap[vec'[id].ptr].st = "free" /\ heap'[vec'[id].ptr].st = "live"
                  /\ vec[id].len # vec[id].cap =>
                        /\ vec'[id].cap = vec[id].cap /\ vec'[id].ptr = vec[id].ptr
                        /\ \A b \in Blocks : Allocation(heap', b) = Allocation(heap, b)]_vars

\* Two pushes into an instance constructed with capacity 2: the second found
\* len = 1 < cap = 2.
C18_Witness ==
    /\ ret.op = "push" /\ ret.out = "ok"
    /\ vec[Orig].alive /\ hist[Orig].pure /\ hist[Orig].cap0 = 2
    /\ vec[Orig].len = 2 /\ vec[Orig].cap = 2

\* C19: remove() with a type other than the element type panics, returns no
\* value and leaves the instance and its buffer as they were.
C19_RemoveRejectsOtherType ==
    [][ret'.op = "remove" => \A id \in Insts : vec[id].alive =>
          \A T \in Types \ {vec[id].element_type}, index \in Indices :
              Remove(id, T, index) =>
                  /\ ret'.out = "panic" /\ ret'.val = <<>>
                  /\ vec' = vec /\ heap' = heap]_vars

====
